---------------------------- MODULE Spec2Model ----------------------------
(***************************************************************************)
(* Model of node-functions/api/notify.js: the Twikoo EdgeOne notification  *)
(* function.  The process holds one mail transporter.  postSubmit          *)
(* invocations follow one another, each with its three concurrent          *)
(* notification attempts; emailTest invocations follow one another and run *)
(* concurrently with the postSubmit in flight.  The requests that touch no *)
(* shared state (getQQAvatar, unknown action, non-internal caller, missing *)
(* data) are answered in one step while nothing else is in flight.  Every  *)
(* action is one synchronous run of JavaScript between two awaits on       *)
(* external I/O.                                                           *)
(***************************************************************************)
EXTENDS Integers, Sequences, FiniteSets, TLC

VARIABLES transporter, post, test, resp

vars == <<transporter, post, test, resp>>

-----------------------------------------------------------------------------
(* Response codes (RES_CODE).                                              *)

SUCCESS == 0
FAIL == 1000
NEED_LOGIN == 1024
FORBIDDEN == 1403

RES_CODE == {SUCCESS, FAIL, NEED_LOGIN, FORBIDDEN}

-----------------------------------------------------------------------------
(* Strings that the code inspects are sequences of one-character strings;  *)
(* the empty sequence stands for a missing or empty (falsy) string.        *)

LowerChar(ch) ==
    CASE ch = "O" -> "o"
      [] ch = "B" -> "b"
      [] ch = "X" -> "x"
      [] ch = "Q" -> "q"
      [] ch = "C" -> "c"
      [] ch = "M" -> "m"
      [] OTHER -> ch

toLowerCase(s) == [i \in 1..Len(s) |-> LowerChar(s[i])]

RECURSIVE trimStart(_)
trimStart(s) ==
    IF s # <<>> /\ Head(s) = " " THEN trimStart(Tail(s)) ELSE s

RECURSIVE trimEnd(_)
trimEnd(s) ==
    IF s # <<>> /\ s[Len(s)] = " " THEN trimEnd(SubSeq(s, 1, Len(s) - 1)) ELSE s

trim(s) == trimEnd(trimStart(s))

normalizeMail(mail) == toLowerCase(trim(mail))

equalsMail(mail1, mail2) ==
    IF mail1 = <<>> \/ mail2 = <<>> THEN FALSE
    ELSE normalizeMail(mail1) = normalizeMail(mail2)

Digits == {"0", "1", "2", "3", "4", "5", "6", "7", "8", "9"}

\* /^[1-9][0-9]{4,10}$/
IsQQNumber(s) ==
    /\ Len(s) >= 5
    /\ Len(s) <= 11
    /\ s[1] \in Digits \ {"0"}
    /\ \A i \in 2..Len(s) : s[i] \in Digits

\* /@qq.com$/i with the dot matching any character
IsQQSuffix(t) ==
    /\ Len(t) = 7
    /\ t[1] = "@"
    /\ LowerChar(t[2]) = "q"
    /\ LowerChar(t[3]) = "q"
    /\ LowerChar(t[5]) = "c"
    /\ LowerChar(t[6]) = "o"
    /\ LowerChar(t[7]) = "m"

isQQ(mail) ==
    \/ IsQQNumber(mail)
    \/ /\ Len(mail) > 7
       /\ IsQQNumber(SubSeq(mail, 1, Len(mail) - 7))
       /\ IsQQSuffix(SubSeq(mail, Len(mail) - 6, Len(mail)))

-----------------------------------------------------------------------------
(* Inputs.  A comment, a parent comment and a config carry the fields the  *)
(* code branches on; "" and <<>> stand for an unset field.                 *)

NoMail == <<>>
OwnerMail == <<"o", "@", "x">>
OwnerMailRaw == <<" ", "O", "@", "X", " ">>
OtherMail == <<"b", "@", "x">>
QQMail == <<"1", "0", "0", "0", "0", "@", "Q", "Q", ".", "c", "o", "m">>
QQNumber == <<"1", "0", "0", "0", "0">>
NotQQNumber == <<"0", "1", "0", "0", "0">>

CommentMails == {OwnerMailRaw, OtherMail, QQMail}

Comments == [mail : CommentMails, isSpam : BOOLEAN, pid : {""}, avatar : {""}]

NoParent == [present |-> FALSE, mail |-> NoMail]

Parents == {NoParent} \cup {[present |-> TRUE, mail |-> m] : m \in {OwnerMail, OtherMail}}

SmtpSettings ==
    { [SMTP_USER |-> "u1", SMTP_PASS |-> "p1", SMTP_SERVICE |-> "",   SMTP_HOST |-> ""],
      [SMTP_USER |-> "u1", SMTP_PASS |-> "p1", SMTP_SERVICE |-> "qq", SMTP_HOST |-> ""],
      [SMTP_USER |-> "u2", SMTP_PASS |-> "p2", SMTP_SERVICE |-> "",   SMTP_HOST |-> "h2"] }

TestSmtpSettings ==
    { [SMTP_USER |-> "u1", SMTP_PASS |-> "",   SMTP_SERVICE |-> "qq", SMTP_HOST |-> ""],
      [SMTP_USER |-> "u2", SMTP_PASS |-> "p2", SMTP_SERVICE |-> "",   SMTP_HOST |-> "h2"] }

PushSettings ==
    { [PUSHOO_CHANNEL |-> "",     PUSHOO_TOKEN |-> "",    SC_MAIL_NOTIFY |-> ""],
      [PUSHOO_CHANNEL |-> "bark", PUSHOO_TOKEN |-> "tok", SC_MAIL_NOTIFY |-> ""],
      [PUSHOO_CHANNEL |-> "bark", PUSHOO_TOKEN |-> "tok", SC_MAIL_NOTIFY |-> "false"],
      [PUSHOO_CHANNEL |-> "bark", PUSHOO_TOKEN |-> "tok", SC_MAIL_NOTIFY |-> "true"] }

SpamSettings ==
    { [QCLOUD_SECRET_ID |-> "",   QCLOUD_SECRET_KEY |-> "",    AKISMET_KEY |-> ""],
      [QCLOUD_SECRET_ID |-> "id", QCLOUD_SECRET_KEY |-> "key", AKISMET_KEY |-> "ak"] }

\* the union of the fields of the three settings records and the two scalar options
MkConfig(blogger, notifySpam, s, p, k) ==
    [BLOGGER_EMAIL |-> blogger, NOTIFY_SPAM |-> notifySpam,
     SMTP_USER |-> s.SMTP_USER, SMTP_PASS |-> s.SMTP_PASS,
     SMTP_SERVICE |-> s.SMTP_SERVICE, SMTP_HOST |-> s.SMTP_HOST,
     PUSHOO_CHANNEL |-> p.PUSHOO_CHANNEL, PUSHOO_TOKEN |-> p.PUSHOO_TOKEN,
     SC_MAIL_NOTIFY |-> p.SC_MAIL_NOTIFY,
     QCLOUD_SECRET_ID |-> k.QCLOUD_SECRET_ID, QCLOUD_SECRET_KEY |-> k.QCLOUD_SECRET_KEY,
     AKISMET_KEY |-> k.AKISMET_KEY]

-----------------------------------------------------------------------------
(* Spam classification.  out holds what the external providers would       *)
(* answer if called: qcloud in {"Pass", "Block", "error"}, verifyKey in    *)
(* {"valid", "invalid", "error"}, checkSpam in {"true", "false", "error"}. *)
(* The result is the returned verdict ("true", "false" or "undef") and the *)
(* set of providers that were called.                                      *)

SpamOutcomes ==
    [qcloud : {"Pass", "Block", "error"},
     verifyKey : {"valid", "invalid", "error"},
     checkSpam : {"true", "false", "error"}]

\* as postCheckSpam, but a failed cloud check falls through to Akismet
postCheckSpamFallThrough(comment, config, out) ==
    IF comment.isSpam
    THEN [isSpam |-> "true", called |-> {}]
    ELSE IF equalsMail(config.BLOGGER_EMAIL, comment.mail)
    THEN [isSpam |-> "false", called |-> {}]
    ELSE IF config.QCLOUD_SECRET_ID # "" /\ config.QCLOUD_SECRET_KEY # ""
            /\ (out.qcloud # "error" \/ config.AKISMET_KEY = "")
    THEN [isSpam |-> CASE out.qcloud = "Pass" -> "false"
                       [] out.qcloud = "Block" -> "true"
                       [] OTHER -> "undef",
          called |-> {"qcloud"}]
    ELSE IF config.AKISMET_KEY # ""
    THEN [isSpam |-> IF out.verifyKey = "valid" /\ out.checkSpam \in {"true", "false"}
                     THEN out.checkSpam
                     ELSE "undef",
          called |-> IF config.QCLOUD_SECRET_ID # "" /\ config.QCLOUD_SECRET_KEY # ""
                     THEN {"qcloud", "akismet"} ELSE {"akismet"}]
    ELSE [isSpam |-> "undef", called |-> {}]

postCheckSpam(comment, config, out) ==
    IF comment.isSpam
    THEN [isSpam |-> "true", called |-> {}]
    ELSE IF equalsMail(config.BLOGGER_EMAIL, comment.mail)
    THEN [isSpam |-> "false", called |-> {}]
    ELSE IF config.QCLOUD_SECRET_ID # "" /\ config.QCLOUD_SECRET_KEY # ""
    THEN [isSpam |-> CASE out.qcloud = "Pass" -> "false"
                       [] out.qcloud = "Block" -> "true"
                       [] OTHER -> "undef",
          called |-> {"qcloud"}]
    ELSE IF config.AKISMET_KEY # ""
    THEN [isSpam |-> IF out.verifyKey = "valid" /\ out.checkSpam \in {"true", "false"}
                     THEN out.checkSpam
                     ELSE "undef",
          called |-> {"akismet"}]
    ELSE [isSpam |-> "undef", called |-> {}]

-----------------------------------------------------------------------------
(* The mail transporter: <<>> is null, <<h>> a transport object h.  h      *)
(* carries the transportConfig it was created from and three history       *)
(* fields: status, the state of its SMTP verification ("pending", "ok",    *)
(* "failed"); by, the handler whose initMailer created it ("post" or       *)
(* "test"); cur, whether that invocation is still in flight.               *)

ValidSmtp(config) ==
    /\ config.SMTP_USER # ""
    /\ config.SMTP_PASS # ""
    /\ (config.SMTP_SERVICE # "" \/ config.SMTP_HOST # "")

\* transportConfig: auth, and the service or else the host
createTransport(config, by) ==
    <<[user |-> config.SMTP_USER, pass |-> config.SMTP_PASS,
       server |-> IF config.SMTP_SERVICE # "" THEN config.SMTP_SERVICE
                  ELSE config.SMTP_HOST,
       status |-> "pending", by |-> by, cur |-> TRUE]>>

\* as initMailerStart, but without the check of the SMTP settings
initMailerStartUnchecked(config, tr, by) == createTransport(config, by)

\* initMailer up to its await of verify(): the transporter it leaves, which is
\* the one it found when the config check throws
initMailerStart(config, tr, by) ==
    IF ValidSmtp(config) THEN createTransport(config, by) ELSE tr

\* the verification result reaches the object it was started on, if that is
\* still the transporter
Verified(tr, by, ok) ==
    IF tr # <<>> /\ tr[1].by = by /\ tr[1].cur /\ tr[1].status = "pending"
    THEN <<[tr[1] EXCEPT !.status = IF ok THEN "ok" ELSE "failed"]>>
    ELSE tr

\* the invocation of handler by has ended: its transport object, if still
\* there, is an earlier invocation's from now on
Released(tr, by) ==
    IF tr # <<>> /\ tr[1].by = by THEN <<[tr[1] EXCEPT !.cur = FALSE]>> ELSE tr

\* What a sendMail call was issued on: "none" when no call was made, "null"
\* when the transporter was null, else the verification state of the object.
NoSend == [on |-> "none", user |-> "", server |-> "", by |-> "", cur |-> FALSE]

SendOn(tr) ==
    IF tr = <<>>
    THEN [on |-> "null", user |-> "", server |-> "", by |-> "", cur |-> FALSE]
    ELSE [on |-> tr[1].status, user |-> tr[1].user, server |-> tr[1].server,
          by |-> tr[1].by, cur |-> tr[1].cur]

-----------------------------------------------------------------------------
(* The three notification attempts.  An attempt is "idle" (not started),   *)
(* "verify" (inside initMailer, awaiting verify()), "send" (awaiting       *)
(* sendMail), "gateway" (awaiting pushoo), "returned" (its promise is      *)
(* fulfilled) or "rejected".  Each operator is the synchronous run of the  *)
(* attempt from one await to the next and gives the transporter it leaves, *)
(* the attempt's next position and what it issued a sendMail on.           *)

Step(tr, pc, send) == [tr |-> tr, pc |-> pc, send |-> send]

hasIMPushConfig(config) == config.PUSHOO_CHANNEL # "" /\ config.PUSHOO_TOKEN # ""

\* transporter.sendMail inside try/catch: on null the TypeError is caught and
\* the attempt returns at once
sendMail(tr) ==
    IF tr = <<>> THEN Step(tr, "returned", SendOn(tr)) ELSE Step(tr, "send", SendOn(tr))

\* as noticeMasterBody, but without the instant-message push rule
noticeMasterBodyAlwaysMails(comment, config, tr) ==
    IF equalsMail(config.BLOGGER_EMAIL, comment.mail) THEN Step(tr, "returned", NoSend)
    ELSE sendMail(tr)

\* noticeMaster after the transporter check
noticeMasterBody(comment, config, tr) ==
    IF equalsMail(config.BLOGGER_EMAIL, comment.mail) THEN Step(tr, "returned", NoSend)
    ELSE IF hasIMPushConfig(config) /\ config.SC_MAIL_NOTIFY # "true"
    THEN Step(tr, "returned", NoSend)
    ELSE sendMail(tr)

\* noticeReply after the transporter check
noticeReplyBody(comment, config, parent, tr) ==
    IF equalsMail(config.BLOGGER_EMAIL, parent.mail) THEN Step(tr, "returned", NoSend)
    ELSE IF equalsMail(comment.mail, parent.mail) THEN Step(tr, "returned", NoSend)
    ELSE sendMail(tr)

\* if (!transporter && !await initMailer(config)) return
transporterCheck(config, tr, body) ==
    IF tr # <<>> THEN body
    ELSE IF initMailerStart(config, tr, "post") # <<>>
    THEN Step(initMailerStart(config, tr, "post"), "verify", NoSend)
    ELSE Step(tr, "returned", NoSend)

noticeMaster(comment, config, tr) ==
    transporterCheck(config, tr, noticeMasterBody(comment, config, tr))

noticeReply(comment, config, parent, tr) ==
    IF comment.pid = "" THEN Step(tr, "returned", NoSend)
    ELSE IF ~parent.present THEN Step(tr, "returned", NoSend)
    ELSE transporterCheck(config, tr, noticeReplyBody(comment, config, parent, tr))

\* as noticePushoo, but without the check for the owner's own comment
noticePushooNoOwnerCheck(comment, config) ==
    ~(config.PUSHOO_CHANNEL = "" \/ config.PUSHOO_TOKEN = "")

\* noticePushoo up to its await of pushoo(): TRUE when the gateway is called
noticePushoo(comment, config) ==
    IF config.PUSHOO_CHANNEL = "" \/ config.PUSHOO_TOKEN = "" THEN FALSE
    ELSE IF equalsMail(config.BLOGGER_EMAIL, comment.mail) THEN FALSE
    ELSE TRUE

\* Promise.all([...]).catch(...): settled as soon as one attempt has rejected
\* or all three have returned
Settled(master, reply, push) ==
    \/ "rejected" \in {master, reply, push}
    \/ {master, reply, push} = {"returned"}

\* every attempt has run to its end
AllEnded(master, reply, push) == {master, reply, push} \subseteq {"returned", "rejected"}

-----------------------------------------------------------------------------
(* Responses.  keys are the fields present in the JSON body (a field whose *)
(* value is undefined is dropped by JSON.stringify).                       *)

NoResp == [sent |-> FALSE, keys |-> {}, code |-> -1, isSpam |-> "undef", avatar |-> ""]

CodeResp(code) ==
    [sent |-> TRUE, keys |-> {"code", "message"}, code |-> code, isSpam |-> "undef",
     avatar |-> ""]

\* handlePostSubmit: { code: SUCCESS, isSpam, avatar: comment.avatar }
PostResp(isSpam, avatar) ==
    [sent |-> TRUE,
     keys |-> {"code"} \cup (IF isSpam # "undef" THEN {"isSpam"} ELSE {})
                       \cup (IF avatar # "" THEN {"avatar"} ELSE {}),
     code |-> SUCCESS, isSpam |-> isSpam, avatar |-> avatar]

\* handleEmailTest with isAdmin: { result } or { message }
TestResp(key) ==
    [sent |-> TRUE, keys |-> {key}, code |-> -1, isSpam |-> "undef", avatar |-> ""]

\* handleGetQQAvatar: { code: SUCCESS, avatar }
AvatarResp(avatar) ==
    [sent |-> TRUE, keys |-> {"code", "avatar"}, code |-> SUCCESS, isSpam |-> "undef",
     avatar |-> avatar]

-----------------------------------------------------------------------------
(* State.  post is the postSubmit invocation in flight (pc "idle" when     *)
(* there is none), test the emailTest invocation in flight.  resp.post and *)
(* resp.test are the responses they returned; resp.misc is the response of *)
(* the latest request answered in one step.                                *)

NoComment == [mail |-> NoMail, isSpam |-> FALSE, pid |-> "", avatar |-> ""]

NoConfig ==
    MkConfig(NoMail, "",
             [SMTP_USER |-> "", SMTP_PASS |-> "", SMTP_SERVICE |-> "", SMTP_HOST |-> ""],
             [PUSHOO_CHANNEL |-> "", PUSHOO_TOKEN |-> "", SC_MAIL_NOTIFY |-> ""],
             [QCLOUD_SECRET_ID |-> "", QCLOUD_SECRET_KEY |-> "", AKISMET_KEY |-> ""])

\* no provider outcome on record
NoOutcome == [qcloud |-> "error", verifyKey |-> "error", checkSpam |-> "error"]

IdlePost ==
    [pc |-> "idle", hasComment |-> FALSE, comment |-> NoComment, config |-> NoConfig, parent |-> NoParent,
     out |-> NoOutcome, isSpam |-> "undef", called |-> {},
     master |-> "idle", reply |-> "idle", push |-> "idle",
     mSend |-> NoSend, rSend |-> NoSend, pushed |-> FALSE]

IdleTest == [pc |-> "idle", isAdmin |-> FALSE]

Init ==
    /\ transporter = <<>>
    /\ post = IdlePost
    /\ test = IdleTest
    /\ resp = [post |-> NoResp, test |-> NoResp, misc |-> NoResp]

Quiet == post.pc = "idle" /\ test.pc = "idle"

-----------------------------------------------------------------------------
(* onRequestPost for the requests that are answered without an await on    *)
(* shared state.                                                           *)

Actions == {"postSubmit", "emailTest", "getQQAvatar"}

\* as onRequestPost, but the unknown-action answer lacks its code
onRequestPostNoCode(internal, action, hasData) ==
    IF ~internal THEN CodeResp(FORBIDDEN)
    ELSE IF action \notin Actions THEN TestResp("message")
    ELSE IF ~hasData THEN CodeResp(FAIL)
    ELSE NoResp

\* the router's own answers: not internal, unknown action, or a handler that
\* throws while destructuring a missing data object
onRequestPost(internal, action, hasData) ==
    IF ~internal THEN CodeResp(FORBIDDEN)
    ELSE IF action \notin Actions THEN CodeResp(FAIL)
    ELSE IF ~hasData THEN CodeResp(FAIL)
    ELSE NoResp

RouterAnswer ==
    /\ Quiet
    /\ \E internal \in BOOLEAN, action \in Actions \cup {"other"}, hasData \in BOOLEAN :
          /\ onRequestPost(internal, action, hasData).sent
          /\ resp' = [resp EXCEPT !.misc = onRequestPost(internal, action, hasData)]
    /\ UNCHANGED <<transporter, post, test>>

\* getQQAvatar(qq): the looked-up url, or null ("") when the lookup fails
QQLookups == {"", "qqurl"}

handleGetQQAvatar(mail, url) ==
    IF ~isQQ(mail) THEN CodeResp(FAIL) ELSE AvatarResp(url)

GetQQAvatar ==
    /\ Quiet
    /\ \E mail \in {NoMail, OtherMail, QQMail, QQNumber, NotQQNumber}, url \in QQLookups :
          resp' = [resp EXCEPT !.misc = handleGetQQAvatar(mail, url)]
    /\ UNCHANGED <<transporter, post, test>>

-----------------------------------------------------------------------------
(* handlePostSubmit.                                                       *)

Replies ==
    { [pid |-> "",   parent |-> [present |-> TRUE, mail |-> OtherMail]],
      [pid |-> "p1", parent |-> NoParent],
      [pid |-> "p1", parent |-> [present |-> TRUE, mail |-> OwnerMail]],
      [pid |-> "p1", parent |-> [present |-> TRUE, mail |-> OtherMail]] }

PostConfigs ==
    {MkConfig(b, n, s, p, k) :
        b \in {OwnerMail}, n \in {"", "false"}, s \in SmtpSettings, p \in PushSettings,
        k \in SpamSettings}

\* as Joined, but a rejected attempt escapes both catches and reaches the
\* handler's outer catch
JoinedRejectionEscapes(p, r) ==
    IF ~r.sent /\ Settled(p.master, p.reply, p.push)
    THEN IF "rejected" \in {p.master, p.reply, p.push}
         THEN CodeResp(FAIL)
         ELSE PostResp(p.isSpam, p.comment.avatar)
    ELSE r

\* the response once the join of sendNotice has settled
Joined(p, r) ==
    IF ~r.sent /\ Settled(p.master, p.reply, p.push)
    THEN PostResp(p.isSpam, p.comment.avatar)
    ELSE r

\* the providers step 2 calls
spamCalls(comment, config) ==
    IF comment.isSpam THEN {} ELSE postCheckSpam(comment, config, NoOutcome).called

\* step 1: the QQ avatar lookup, when the comment has no avatar and a QQ mail;
\* comment.avatar is set when a url came back
avatarStep(comment, url) ==
    IF comment.avatar = "" /\ isQQ(comment.mail) /\ url # ""
    THEN [comment EXCEPT !.avatar = url]
    ELSE comment

\* the provider outcomes to tell apart for a comment and a config: those of
\* the calls that postCheckSpam makes for them
OutcomesFor(comment, config) ==
    {out \in SpamOutcomes :
        /\ "qcloud" \notin spamCalls(comment, config) => out.qcloud = "error"
        /\ "akismet" \notin spamCalls(comment, config)
              => (out.verifyKey = "error" /\ out.checkSpam = "error")
        /\ out.verifyKey # "valid" => out.checkSpam = "error"}

\* step 2: let isSpam = comment.isSpam; if (!isSpam) isSpam = await postCheckSpam(...)
spamStep(comment, config, out) ==
    IF comment.isSpam THEN [isSpam |-> "true", called |-> {}]
    ELSE postCheckSpam(comment, config, out)

\* sendNotice's entry condition
skipNotice(comment, config) == comment.isSpam /\ config.NOTIFY_SPAM = "false"

\* step 3: sendNotice runs the three attempts, in order, up to their first
\* awaits; gives the invocation and the transporter it leaves
sendNotice(p, tr) ==
    IF skipNotice(p.comment, p.config)
    THEN [post |-> [p EXCEPT !.pc = "done"], tr |-> tr]
    ELSE LET m == noticeMaster(p.comment, p.config, tr)
             r == noticeReply(p.comment, p.config, p.parent, m.tr)
             g == noticePushoo(p.comment, p.config)
         IN  [post |-> [p EXCEPT !.pc = "fanout",
                                 !.master = m.pc, !.mSend = m.send,
                                 !.reply = r.pc, !.rSend = r.send,
                                 !.push = IF g THEN "gateway" ELSE "returned",
                                 !.pushed = g],
              tr |-> r.tr]

\* the response of handlePostSubmit at the end of its synchronous start: out
\* when sendNotice was skipped or its join has already settled
startResp(p) ==
    IF p.pc = "done" THEN PostResp(p.isSpam, p.comment.avatar) ELSE Joined(p, NoResp)

\* A postSubmit request arrives.  Without a comment the handler's outer catch
\* answers FAIL.  Otherwise steps 1 and 2 (which await only the avatar lookup
\* and the spam provider and touch no shared state) and the synchronous start
\* of step 3 run.
PostSubmit ==
    /\ post.pc = "idle"
    /\ \E hasComment \in BOOLEAN, c \in Comments, re \in Replies, cfg \in PostConfigs,
          url \in QQLookups :
       \E out \in OutcomesFor(c, cfg) :
          IF ~hasComment
          THEN /\ post' = [IdlePost EXCEPT !.pc = "done"]
               /\ resp' = [resp EXCEPT !.post = CodeResp(FAIL), !.misc = NoResp]
               /\ UNCHANGED transporter
          ELSE LET c1 == avatarStep([c EXCEPT !.pid = re.pid], url)
                   s == spamStep(c1, cfg, out)
                   n == sendNotice([IdlePost EXCEPT !.hasComment = TRUE, !.comment = c1, !.config = cfg,
                                         !.parent = re.parent,
                                         !.out = out, !.isSpam = s.isSpam,
                                         !.called = s.called],
                                   transporter)
               IN  /\ post' = n.post
                   /\ transporter' = n.tr
                   /\ resp' = [resp EXCEPT !.post = startResp(n.post), !.misc = NoResp]
    /\ UNCHANGED test

\* verify() of the transport created by noticeMaster's initMailer settles.
\* (noticeReply never awaits verify(): its transporter check runs in the same
\* synchronous run right after noticeMaster's, which has either created the
\* transporter or failed on the same config.)
MasterVerifyDone ==
    /\ post.master = "verify"
    /\ \E ok \in BOOLEAN :
          LET tr1 == Verified(transporter, "post", ok)
              m == IF ok THEN noticeMasterBody(post.comment, post.config, tr1)
                   ELSE Step(tr1, "returned", NoSend)
              p == [post EXCEPT !.master = m.pc, !.mSend = m.send]
          IN  /\ post' = p
              /\ transporter' = m.tr
              /\ resp' = [resp EXCEPT !.post = Joined(p, @)]
    /\ UNCHANGED test

\* noticeMaster's sendMail settles: the result or the caught error is logged
MasterSendDone ==
    /\ post.master = "send"
    /\ LET p == [post EXCEPT !.master = "returned"]
       IN  /\ post' = p
           /\ resp' = [resp EXCEPT !.post = Joined(p, @)]
    /\ UNCHANGED <<transporter, test>>

\* noticeReply's sendMail settles
ReplySendDone ==
    /\ post.reply = "send"
    /\ LET p == [post EXCEPT !.reply = "returned"]
       IN  /\ post' = p
           /\ resp' = [resp EXCEPT !.post = Joined(p, @)]
    /\ UNCHANGED <<transporter, test>>

\* pushoo() settles: noticePushoo has no catch, so an error rejects the attempt
PushDone ==
    /\ post.push = "gateway"
    /\ \E ok \in BOOLEAN :
          LET p == [post EXCEPT !.push = IF ok THEN "returned" ELSE "rejected"]
          IN  /\ post' = p
              /\ resp' = [resp EXCEPT !.post = Joined(p, @)]
    /\ UNCHANGED <<transporter, test>>

\* the invocation is over: the response is out and no attempt is running
PostEnded ==
    /\ resp.post.sent
    /\ \/ post.pc = "done"
       \/ post.pc = "fanout" /\ AllEnded(post.master, post.reply, post.push)

PostRetire ==
    /\ PostEnded
    /\ post' = IdlePost
    /\ resp' = [resp EXCEPT !.post = NoResp]
    /\ transporter' = Released(transporter, "post")
    /\ UNCHANGED test

-----------------------------------------------------------------------------
(* handleEmailTest.                                                        *)

TestConfigs ==
    {MkConfig(OwnerMail, "", s,
              [PUSHOO_CHANNEL |-> "", PUSHOO_TOKEN |-> "", SC_MAIL_NOTIFY |-> ""],
              [QCLOUD_SECRET_ID |-> "", QCLOUD_SECRET_KEY |-> "", AKISMET_KEY |-> ""]) :
        s \in TestSmtpSettings}

\* an emailTest request arrives: NEED_LOGIN unless isAdmin; otherwise the
\* transporter is reset and initMailer(config, true) runs up to verify()
EmailTestReceive ==
    /\ test.pc = "idle"
    /\ \E isAdmin \in BOOLEAN, cfg \in TestConfigs :
          IF ~isAdmin
          THEN /\ test' = [IdleTest EXCEPT !.pc = "done"]
               /\ resp' = [resp EXCEPT !.test = CodeResp(NEED_LOGIN), !.misc = NoResp]
               /\ UNCHANGED transporter
          ELSE IF initMailerStart(cfg, <<>>, "test") # <<>>
          THEN /\ test' = [IdleTest EXCEPT !.pc = "verify", !.isAdmin = TRUE]
               /\ transporter' = initMailerStart(cfg, <<>>, "test")
               /\ resp' = [resp EXCEPT !.misc = NoResp]
          ELSE /\ test' = [IdleTest EXCEPT !.pc = "done", !.isAdmin = TRUE]
               /\ transporter' = <<>>
               /\ resp' = [resp EXCEPT !.test = TestResp("message"), !.misc = NoResp]
    /\ UNCHANGED post

\* verify() settles: a failure is rethrown and becomes res.message, a success
\* goes on to transporter.sendMail
EmailTestVerifyDone ==
    /\ test.pc = "verify"
    /\ \E ok \in BOOLEAN :
          LET tr1 == Verified(transporter, "test", ok)
          IN  /\ transporter' = tr1
              /\ IF ok /\ tr1 # <<>>
                 THEN /\ test' = [test EXCEPT !.pc = "send"]
                      /\ UNCHANGED resp
                 ELSE /\ test' = [test EXCEPT !.pc = "done"]
                      /\ resp' = [resp EXCEPT !.test = TestResp("message")]
    /\ UNCHANGED post

\* sendMail settles: res.result, or res.message when it threw
EmailTestSendDone ==
    /\ test.pc = "send"
    /\ \E ok \in BOOLEAN :
          /\ test' = [test EXCEPT !.pc = "done"]
          /\ resp' = [resp EXCEPT !.test = TestResp(IF ok THEN "result" ELSE "message")]
    /\ UNCHANGED <<transporter, post>>

EmailTestRetire ==
    /\ test.pc = "done"
    /\ test' = IdleTest
    /\ resp' = [resp EXCEPT !.test = NoResp]
    /\ transporter' = Released(transporter, "test")
    /\ UNCHANGED post

-----------------------------------------------------------------------------

Next ==
    \/ RouterAnswer
    \/ GetQQAvatar
    \/ PostSubmit
    \/ MasterVerifyDone
    \/ MasterSendDone
    \/ ReplySendDone
    \/ PushDone
    \/ PostRetire
    \/ EmailTestReceive
    \/ EmailTestVerifyDone
    \/ EmailTestSendDone
    \/ EmailTestRetire

Spec == Init /\ [][Next]_vars

-----------------------------------------------------------------------------
(* postCheckSpam on its own: every comment and config of SpamInputs, every *)
(* provider outcome.  post.pc is "check" before the call and "checked"     *)
(* after it; post.out is what the providers would answer.                  *)

AllSpamSettings ==
    [QCLOUD_SECRET_ID : {"", "id"}, QCLOUD_SECRET_KEY : {"", "key"}, AKISMET_KEY : {"", "ak"}]

SpamComments ==
    [mail : {NoMail, OwnerMail, OwnerMailRaw, OtherMail}, isSpam : BOOLEAN, pid : {""},
     avatar : {""}]

SpamConfigs ==
    {MkConfig(b, "", CHOOSE s \in SmtpSettings : TRUE, CHOOSE p \in PushSettings : TRUE, k) :
        b \in {NoMail, OwnerMail}, k \in AllSpamSettings}

InitSpam ==
    /\ transporter = <<>>
    /\ test = IdleTest
    /\ resp = [post |-> NoResp, test |-> NoResp, misc |-> NoResp]
    /\ \E c \in SpamComments, cfg \in SpamConfigs, out \in SpamOutcomes :
          post = [IdlePost EXCEPT !.pc = "check", !.hasComment = TRUE, !.comment = c,
                                  !.config = cfg, !.out = out]

Classify ==
    /\ post.pc = "check"
    /\ post' = [post EXCEPT
                  !.pc = "checked",
                  !.isSpam = postCheckSpam(post.comment, post.config, post.out).isSpam,
                  !.called = postCheckSpam(post.comment, post.config, post.out).called]
    /\ UNCHANGED <<transporter, test, resp>>

NextSpam == Classify

SpecSpam == InitSpam /\ [][NextSpam]_vars

-----------------------------------------------------------------------------
(* Properties.                                                             *)

HasCode(r) == "code" \in r.keys /\ r.code \in RES_CODE

\* the comment's normalized author email is the configured BLOGGER_EMAIL
IsOwnerComment ==
    /\ post.config.BLOGGER_EMAIL # NoMail
    /\ normalizeMail(post.comment.mail) = post.config.BLOGGER_EMAIL

\* sendNotice has been entered for the comment in flight
NoticeEntered == post.hasComment /\ post.pc \in {"fanout", "done"}

\* the sendMail calls the notification attempts have issued
Sends == {s \in {post.mSend, post.rSend} : s.on \notin {"none", "null"}}

SmtpServer(config) ==
    IF config.SMTP_SERVICE # "" THEN config.SMTP_SERVICE ELSE config.SMTP_HOST

(* C1: a postSubmit that carries a comment and a config is answered with   *)
(* code SUCCESS as soon as sendNotice is skipped or its join has settled,  *)
(* whatever failed on the way: the avatar lookup, the spam provider, the   *)
(* SMTP verification, sendMail, the push gateway.                          *)
C1_PostSubmitAnswersSuccess ==
    /\ (post.hasComment /\ resp.post.sent)
          => ("code" \in resp.post.keys /\ resp.post.code = SUCCESS)
    /\ (post.hasComment
          /\ (post.pc = "done"
                \/ (post.pc = "fanout" /\ Settled(post.master, post.reply, post.push))))
          => resp.post.sent

\* a SUCCESS answer after a failed avatar lookup, a failed spam provider, a
\* failed SMTP verification and a rejected push
C1_Witness ==
    /\ post.hasComment
    /\ resp.post.sent
    /\ resp.post.code = SUCCESS
    /\ post.comment.mail = QQMail
    /\ post.comment.avatar = ""
    /\ post.called # {}
    /\ post.isSpam = "undef"
    /\ post.push = "rejected"
    /\ post.master = "returned"
    /\ transporter # <<>>
    /\ transporter[1].status = "failed"
    /\ transporter[1].by = "post"
    /\ transporter[1].cur

(* C2: when the comment is flagged spam, on arrival or by the spam check   *)
(* of this postSubmit, and NOTIFY_SPAM is 'false', the fan-out is skipped: *)
(* no owner email, no reply email and no push is issued.                   *)
C2_SpamIsNotNotified ==
    (NoticeEntered
       /\ (post.comment.isSpam \/ post.isSpam = "true")
       /\ post.config.NOTIFY_SPAM = "false")
      => (post.mSend.on = "none" /\ post.rSend.on = "none" /\ ~post.pushed)

(* C3, as claimed: for the owner's own comment no owner email and no push  *)
(* are sent, no spam provider is called and the verdict is false.          *)
C3_OwnerVerdictAlwaysFalse ==
    (NoticeEntered /\ IsOwnerComment)
      => /\ post.mSend.on = "none"
         /\ ~post.pushed
         /\ post.called = {}
         /\ post.isSpam = "false"
         /\ resp.post.sent => resp.post.isSpam = "false"

(* C3, amended: for the owner's own comment no owner email and no push are *)
(* sent and no spam provider is called; the verdict is false unless the    *)
(* comment arrived flagged as spam, and true then.                         *)
C3_OwnerExempt ==
    (NoticeEntered /\ IsOwnerComment)
      => /\ post.mSend.on = "none"
         /\ ~post.pushed
         /\ post.called = {}
         /\ post.isSpam = (IF post.comment.isSpam THEN "true" ELSE "false")
         /\ resp.post.sent => resp.post.isSpam = post.isSpam

\* the owner's comment, written with capitals and blanks, answered with mail,
\* push and both spam providers configured and a verified transporter
C3_Witness ==
    /\ NoticeEntered
    /\ IsOwnerComment
    /\ post.comment.mail # post.config.BLOGGER_EMAIL
    /\ ~post.comment.isSpam
    /\ post.pc = "fanout"
    /\ resp.post.sent
    /\ resp.post.isSpam = "false"
    /\ hasIMPushConfig(post.config)
    /\ post.config.SC_MAIL_NOTIFY = "true"
    /\ post.config.QCLOUD_SECRET_ID # ""
    /\ post.config.AKISMET_KEY # ""
    /\ transporter # <<>>
    /\ transporter[1].status = "ok"

(* C4, as claimed: every response body carries a code, one of SUCCESS,     *)
(* FAIL, NEED_LOGIN, FORBIDDEN.                                            *)
C4_EveryResponseHasCode ==
    \A k \in {"post", "test", "misc"} : resp[k].sent => HasCode(resp[k])

(* C4, amended: every response body carries a code, one of SUCCESS, FAIL,  *)
(* NEED_LOGIN, FORBIDDEN, except the response of emailTest to an admin,    *)
(* which carries only result or only message.                              *)
C4_ResponseCodes ==
    /\ resp.post.sent => HasCode(resp.post)
    /\ resp.misc.sent => HasCode(resp.misc)
    /\ resp.test.sent =>
          IF test.isAdmin
          THEN resp.test.keys \in {{"result"}, {"message"}}
          ELSE HasCode(resp.test)

\* an admin's emailTest answered with a result beside a postSubmit answered
\* with a code
C4_Witness ==
    /\ resp.test.sent
    /\ test.isAdmin
    /\ resp.test.keys = {"result"}
    /\ resp.post.sent
    /\ post.hasComment
    /\ resp.post.code = SUCCESS

(* C5: once the postSubmit response is out after a fan-out, all three      *)
(* notification attempts have run to their end: the join does not settle   *)
(* while an attempt is still in flight, even when another has failed.      *)
C5_JoinWaitsForAllAttempts ==
    (post.pc = "fanout" /\ resp.post.sent)
      => AllEnded(post.master, post.reply, post.push)

(* C6: with PUSHOO_CHANNEL and PUSHOO_TOKEN configured and SC_MAIL_NOTIFY  *)
(* not 'true', a fan-out for a comment that is not the owner's issues no   *)
(* owner email and does call the push gateway, whatever the SMTP settings  *)
(* and the state of the transporter.                                       *)
C6_PushInsteadOfOwnerMail ==
    (post.hasComment /\ post.pc = "fanout"
       /\ hasIMPushConfig(post.config)
       /\ post.config.SC_MAIL_NOTIFY # "true"
       /\ ~equalsMail(post.config.BLOGGER_EMAIL, post.comment.mail))
      => /\ post.mSend.on = "none"
         /\ post.pushed
         /\ post.push \in {"gateway", "returned", "rejected"}

\* such a fan-out, ended, on a transporter this postSubmit created and
\* verified, with SC_MAIL_NOTIFY 'false'
C6_Witness ==
    /\ post.hasComment
    /\ post.pc = "fanout"
    /\ hasIMPushConfig(post.config)
    /\ post.config.SC_MAIL_NOTIFY = "false"
    /\ ~equalsMail(post.config.BLOGGER_EMAIL, post.comment.mail)
    /\ post.master = "returned"
    /\ post.push = "returned"
    /\ post.pushed
    /\ transporter # <<>>
    /\ transporter[1].status = "ok"
    /\ transporter[1].by = "post"
    /\ transporter[1].cur

(* C7: a transport object created by a notification attempt's initMailer   *)
(* does not stay as the transporter once its verification has failed, and  *)
(* no notification attempt issues a sendMail on such an object.            *)
C7_FailedVerifyLeavesNull ==
    /\ (transporter # <<>> /\ transporter[1].by = "post")
          => transporter[1].status # "failed"
    /\ post.mSend.on # "failed"
    /\ post.rSend.on # "failed"

(* C8: postCheckSpam calls at most one provider: none for a comment that   *)
(* arrives flagged (verdict true) or is the owner's (verdict false), the   *)
(* cloud provider when QCLOUD_SECRET_ID and QCLOUD_SECRET_KEY are set,     *)
(* Akismet only when they are not and AKISMET_KEY is set; a failed cloud   *)
(* call leaves the verdict undetermined and Akismet uncalled.              *)
QcloudConfigured ==
    post.config.QCLOUD_SECRET_ID # "" /\ post.config.QCLOUD_SECRET_KEY # ""

Exempt == post.comment.isSpam \/ equalsMail(post.config.BLOGGER_EMAIL, post.comment.mail)

C8_OneProviderByPriority ==
    post.pc = "checked"
      => /\ Cardinality(post.called) <= 1
         /\ post.comment.isSpam => (post.called = {} /\ post.isSpam = "true")
         /\ (~post.comment.isSpam /\ Exempt)
               => (post.called = {} /\ post.isSpam = "false")
         /\ (~Exempt /\ QcloudConfigured) => post.called = {"qcloud"}
         /\ (~Exempt /\ ~QcloudConfigured /\ post.config.AKISMET_KEY # "")
               => post.called = {"akismet"}
         /\ (~Exempt /\ ~QcloudConfigured /\ post.config.AKISMET_KEY = "")
               => (post.called = {} /\ post.isSpam = "undef")
         /\ (~Exempt /\ QcloudConfigured /\ post.out.qcloud = "error")
               => (post.isSpam = "undef" /\ "akismet" \notin post.called)

\* the cloud call failed with an Akismet key configured and a valid answer
\* waiting there
C8_Witness ==
    /\ post.pc = "checked"
    /\ ~Exempt
    /\ QcloudConfigured
    /\ post.config.AKISMET_KEY # ""
    /\ post.out.qcloud = "error"
    /\ post.out.verifyKey = "valid"
    /\ post.out.checkSpam = "true"
    /\ post.called = {"qcloud"}
    /\ post.isSpam = "undef"

(* C9: every sendMail of a notification attempt is issued on a transporter *)
(* that is not null and whose SMTP verification has completed with         *)
(* success.                                                                *)
C9_SendsOnlyOnVerifiedTransport ==
    /\ post.mSend.on \in {"none", "ok"}
    /\ post.rSend.on \in {"none", "ok"}

(* C10, as claimed: every notification email goes through a transport      *)
(* built from the SMTP settings of the request being handled.              *)
C10_MailUsesRequestSmtp ==
    \A s \in Sends :
        /\ ValidSmtp(post.config)
        /\ s.user = post.config.SMTP_USER
        /\ s.server = SmtpServer(post.config)

(* C10, amended: every notification email goes through the process-wide    *)
(* transporter, built from SMTP settings with a user and a server: those   *)
(* of the request being handled when this request created it, else those   *)
(* of the earlier or concurrent request that did.                          *)
C10_MailUsesCachedSmtp ==
    \A s \in Sends :
        /\ s.user # ""
        /\ s.server # ""
        /\ (s.by = "post" /\ s.cur)
              => /\ ValidSmtp(post.config)
                 /\ s.user = post.config.SMTP_USER
                 /\ s.server = SmtpServer(post.config)

\* an owner email sent by a postSubmit without SMTP settings of its own, on
\* the verified transport an earlier postSubmit created
C10_Witness ==
    /\ post.mSend.on = "ok"
    /\ post.mSend.by = "post"
    /\ ~post.mSend.cur
    /\ ~ValidSmtp(post.config)

=============================================================================
